---- MODULE Spec2Model ----
(***************************************************************************)
(* Model of the two batch image-compression scripts of the repository:     *)
(*   compress_script/compress.py          (local re-encoding with PIL)     *)
(*   compress_script/compress_tinypng.py  (remote compression via tinify)  *)
(* One run of one script is one behaviour; `script` says which script was  *)
(* started.  Files are named by records, the directory is a function from  *)
(* the names that exist to their content.  The calls that read or write    *)
(* the files and directories a run is given, and the tinify calls, may fail *)
(* nondeterministically; os.remove of the temp file compress.py has just  *)
(* written is taken to succeed, and a failing shutil.move to change nothing.*)
(***************************************************************************)
EXTENDS Integers, Sequences, FiniteSets, TLC

\* ---------------------------------------------------------------- bounds
MaxFiles == 2     \* files in the processed directory
MaxSize  == 2     \* file sizes are 1..MaxSize
MaxRuns  == 2     \* times compress.py is started on the same directory

Sizes == 1..MaxSize

\* ------------------------------------------------------- generic helpers
Put(f, k, v) == [x \in (DOMAIN f) \cup {k} |-> IF x = k THEN v ELSE f[x]]
Remove(f, k) == [x \in (DOMAIN f) \ {k} |-> f[x]]
Range(s) == {s[j] : j \in DOMAIN s}
Injective(s) == \A a, b \in DOMAIN s : s[a] = s[b] => a = b

\* str.lower() on the extensions the model uses
lower(ext) ==
    CASE ext = "PNG"  -> "png"
      [] ext = "JPG"  -> "jpg"
      [] ext = "JPEG" -> "jpeg"
      [] ext = "GIF"  -> "gif"
      [] OTHER        -> ext

\* ================================================================ compress.py
\* A name of compress.py's directory: stem + "." + ext, plus ".tmp" when tmp.
StemsL == {"a"}
ExtsL  == {"png", "JPG", "gif"}
NamesL == [stem : StemsL, ext : ExtsL, tmp : BOOLEAN]

\* filename.lower().endswith((".png", ".jpg", ".jpeg"))
SupportedL(name) == ~name.tmp /\ lower(name.ext) \in {"png", "jpg", "jpeg"}

\* temp_filepath = filepath + ".tmp"
temp_filepath(filepath) == [filepath EXCEPT !.tmp = TRUE]

\* img.format of an opened image
FormatsL == {"JPEG", "PNG", "GIF", "BMP"}

NoFileL == [stem |-> "", ext |-> "", tmp |-> FALSE]
NoCallL == [file |-> NoFileL, outcome |-> "none", format |-> "none",
            original_size |-> 0, new_size |-> 0,
            before |-> [size |-> 0, gen |-> 0], tmp_before |-> FALSE]

\* ================================================================ compress_tinypng.py
\* A file name below the input folder: stem + "." + ext; a stem starting with
\* "sub/" lies in the subdirectory sub.
StemsT == {"a", "sub/a"}
ExtsT  == {"png", "JPG", "webp", "gif"}
NamesT == [stem : StemsT, ext : ExtsT]
InSub(name) == name.stem \in {"sub/a"}

\* SUPPORTED_FORMATS and file.lower().endswith(SUPPORTED_FORMATS)
SUPPORTED_FORMATS == {"png", "jpg", "jpeg", "webp", "avif"}
SupportedT(name) == lower(name.ext) \in SUPPORTED_FORMATS

\* MIME_TO_EXT and MIME_TO_EXT.get(convert_type, None)
MIME_TO_EXT ==
    [m \in {"image/png", "image/jpeg", "image/jpg", "image/webp", "image/avif"} |->
        CASE m = "image/png"  -> "png"
          [] m = "image/jpeg" -> "jpg"
          [] m = "image/jpg"  -> "jpg"
          [] m = "image/webp" -> "webp"
          [] m = "image/avif" -> "avif"]
MimeExt(convert_type) ==
    IF convert_type \in DOMAIN MIME_TO_EXT THEN MIME_TO_EXT[convert_type] ELSE "none"

\* Paths: dir is "in" (the input folder), "out" (the --output path) or "".
NoPath == [dir |-> "", stem |-> "", ext |-> ""]
InputPath(name) == [dir |-> "in", stem |-> name.stem, ext |-> name.ext]
\* os.path.join(output_folder, rel, file)
FolderOutput(name) == [dir |-> "out", stem |-> name.stem, ext |-> name.ext]
\* --output of a single-file run: the file out/o.png
SingleOutput == [dir |-> "out", stem |-> "o", ext |-> "png"]
\* os.path.dirname(path), as the directory the path lies in
DirOf(path) ==
    IF path.stem \in {"sub/a"} THEN <<path.dir, "sub">> ELSE <<path.dir, ".">>

\* Values of the run's inputs.
ConvertTypes == {"none", "image/webp", "image/bmp"}
Times == {-1, 0, 1}          \* mtime / ctime values of files
AfterValues == {0, 1}        \* numeric --after values
NoSince == [set |-> FALSE, val |-> 0]
\* `if since_ts:` : None and 0 are both false
Truthy(since_ts) == since_ts.set /\ since_ts.val # 0
FormatsT == {"PNG", "GIF"}   \* what the bytes of a file are

NoCallT == [file |-> NoPath, outcome |-> "none", format |-> "none", file_ts |-> 0,
            original_size |-> 0, compressed_size |-> 0, output_path |-> NoPath,
            before |-> [data |-> "none", of |-> NoPath]]

\* ====================================================================== state
VARIABLES
    script,     \* "compress" or "tinypng": the script this run executes
    fsL,        \* compress.py's directory: name -> [size, gen] (gen counts rewrites)
    fs0L,       \* the directory when the first run started
    filesL,     \* files = os.listdir(input_folder), of the current run
    iL,         \* position of main's for loop in filesL
    pcL,        \* "loop" | "done"
    runsL,      \* runs of main started so far
    attemptsL,  \* per listed name: compress_image calls in the current run
    unreadableL, \* listed names main skipped because their size could not be read
    lastL       \* what the last compress_image call did

varsL == <<fsL, fs0L, filesL, iL, pcL, runsL, attemptsL, unreadableL, lastL>>

VARIABLES
    argsT,          \* the parsed command line and what --input is
    filesT,         \* the supported and unsupported files os.walk yields, in order
    fsT,            \* path -> content of the files that exist
    dirsT,          \* directories that exist
    iT,             \* position of compress_folder's loop in the walk
    pcT,            \* "main" | "filter" | "call" | "report" | "exit" | "crashed"
    total_files, skipped, success_count, fail_count,
    attemptsT,      \* per input name: compress_image calls
    writesT,        \* {[src, dst]}: output files written (wholly or partly)
    lastT           \* the file being processed and what the last call did

varsT == <<argsT, filesT, fsT, dirsT, iT, pcT, total_files, skipped, success_count,
           fail_count, attemptsT, writesT, lastT>>
vars == <<script, varsL, varsT>>

\* ======================================================================= Init
ListingsL ==
    {s \in UNION {[1..n -> NamesL] : n \in 1..MaxFiles} : Injective(s)}

InitL ==
    /\ \E s \in ListingsL : \E sz \in [Range(s) -> Sizes] :
          /\ filesL = s
          /\ fsL = [n \in Range(s) |-> [size |-> sz[n], gen |-> 0]]
    /\ fs0L = fsL
    /\ iL = 1
    /\ pcL = "loop"
    /\ runsL = 1
    /\ attemptsL = [n \in Range(filesL) |-> 0]
    /\ unreadableL = {}
    /\ lastL = NoCallL

\* The state of compress.py when the other script runs.
IdleL ==
    /\ fsL = << >> /\ fs0L = << >> /\ filesL = << >> /\ iL = 1 /\ pcL = "done"
    /\ runsL = 0 /\ attemptsL = << >> /\ unreadableL = {} /\ lastL = NoCallL

Orig(path) == [data |-> "orig", of |-> path]

\* os.walk is top-down: the folder's own files come before those of sub.
WalkOrder(s) == \A a, b \in DOMAIN s : (a < b /\ InSub(s[a])) => InSub(s[b])
ListingsT ==
    {s \in UNION {[1..n -> NamesT] : n \in 1..MaxFiles} : Injective(s) /\ WalkOrder(s)}

ArgsT ==
    {a \in [input : {"file", "dir", "missing"}, output : BOOLEAN,
            convert_type : ConvertTypes,
            since_ts : {NoSince} \cup [set : {TRUE}, val : AfterValues],
            time_field : {"mtime", "ctime"}, recursive : BOOLEAN] :
        \* options that cannot matter keep their defaults
        /\ (~a.since_ts.set => a.time_field = "mtime")
        /\ (a.input # "dir" => a.recursive)
        /\ (a.input = "missing" =>
               ~a.output /\ a.convert_type = "none" /\ ~a.since_ts.set)}

InitT ==
    /\ argsT \in ArgsT
    /\ filesT \in ListingsT
    /\ (argsT.input = "file" => Len(filesT) = 1)
    /\ (argsT.input = "missing" => filesT = <<[stem |-> "a", ext |-> "png"]>>)
    /\ (~argsT.recursive => \E j \in DOMAIN filesT : InSub(filesT[j]))
    /\ fsT = [p \in {InputPath(n) : n \in Range(filesT)} |-> Orig(p)]
    /\ dirsT = {<<"in", ".">>} \cup {<<"in", "sub">> : n \in {m \in Range(filesT) : InSub(m)}}
    /\ iT = 1
    /\ pcT = "main"
    /\ total_files = 0 /\ skipped = 0 /\ success_count = 0 /\ fail_count = 0
    /\ attemptsT = [n \in Range(filesT) |-> 0]
    /\ writesT = {}
    /\ lastT = NoCallT

IdleT ==
    /\ argsT = << >> /\ filesT = << >> /\ fsT = << >> /\ dirsT = {} /\ iT = 1
    /\ pcT = "exit" /\ total_files = 0 /\ skipped = 0 /\ success_count = 0
    /\ fail_count = 0 /\ attemptsT = << >> /\ writesT = {} /\ lastT = NoCallT

Init ==
    \/ script = "compress" /\ InitL /\ IdleT
    \/ script = "tinypng" /\ InitT /\ IdleL
\* ======================================================== compress.py actions
\* ---- compress_image(filepath): one disjunct per path through the function.
\* Each leaves the directory it returns with in fsL' and its record in lastL'.
Called(filepath, outcome, format, new_size) ==
    /\ attemptsL' = [attemptsL EXCEPT ![filepath] = @ + 1]
    /\ lastL' = [file |-> filepath, outcome |-> outcome, format |-> format,
                 original_size |-> fsL[filepath].size, new_size |-> new_size,
                 before |-> fsL[filepath],
                 tmp_before |-> temp_filepath(filepath) \in DOMAIN fsL]

\* Image.open raises: logged, return.
OpenFails(filepath) ==
    /\ Called(filepath, "open_error", "none", 0)
    /\ fsL' = fsL

\* img.format is GIF: return before temp_filepath is even computed.
GifSkipped(filepath) ==
    /\ Called(filepath, "gif", "GIF", 0)
    /\ fsL' = fsL

\* (a handler that logs the error and leaves the temp file save created)
SaveOrSizeFailsLeavesTemp(filepath, format) ==
    /\ Called(filepath, "error", format, 0)
    /\ fsL' = Put(fsL, temp_filepath(filepath), [size |-> 1, gen |-> 0])

\* img.save, os.path.getsize or shutil.move raises: the handler removes the
\* temp file if it exists (whether save created it or it was already there).
SaveOrSizeFails(filepath, format) ==
    /\ Called(filepath, "error", format, 0)
    /\ fsL' = Remove(fsL, temp_filepath(filepath))

\* (a comparison that also accepts an equal size)
SmallerOrEqual(new_size, original_size) == new_size <= original_size
\* if new_size < original_size
Smaller(new_size, original_size) == new_size < original_size

\* Saved; the temp file is smaller: shutil.move(temp_filepath, filepath).
Replaced(filepath, format, new_size) ==
    /\ Smaller(new_size, fsL[filepath].size)
    /\ Called(filepath, "replaced", format, new_size)
    /\ fsL' = Remove([fsL EXCEPT ![filepath] =
                         [size |-> new_size, gen |-> @.gen + 1]],
                     temp_filepath(filepath))

\* Saved; the temp file is not smaller: os.remove(temp_filepath).
Kept(filepath, format, new_size) ==
    /\ ~Smaller(new_size, fsL[filepath].size)
    /\ Called(filepath, "kept", format, new_size)
    /\ fsL' = Remove(fsL, temp_filepath(filepath))

compress_image(filepath) ==
    \/ OpenFails(filepath)
    \/ GifSkipped(filepath)
    \/ \E format \in FormatsL \ {"GIF"} :
          \/ SaveOrSizeFails(filepath, format)
          \/ \E new_size \in Sizes :
                \/ Replaced(filepath, format, new_size)
                \/ Kept(filepath, format, new_size)

\* ---- main(): one iteration of `for filename in files`.
Advance ==
    /\ iL' = iL + 1
    /\ pcL' = IF iL = Len(filesL) THEN "done" ELSE "loop"
    /\ UNCHANGED <<script, fs0L, filesL, runsL, varsT>>

\* The name does not end in .png/.jpg/.jpeg: nothing happens.
MainSkipsExtension ==
    /\ script = "compress" /\ pcL = "loop"
    /\ ~SupportedL(filesL[iL])
    /\ Advance
    /\ UNCHANGED <<fsL, attemptsL, unreadableL, lastL>>

\* os.path.getsize(filepath) raises before the call: logged, continue.
MainSizeError ==
    /\ script = "compress" /\ pcL = "loop"
    /\ SupportedL(filesL[iL])
    /\ unreadableL' = unreadableL \cup {filesL[iL]}
    /\ Advance
    /\ UNCHANGED <<fsL, attemptsL, lastL>>

\* compress_image(filepath, quality=quality), then the size is logged.
MainCompresses ==
    /\ script = "compress" /\ pcL = "loop"
    /\ SupportedL(filesL[iL])
    /\ compress_image(filesL[iL])
    /\ Advance
    /\ UNCHANGED unreadableL

\* The script is started again on the directory the last run left.
MainAgain ==
    /\ script = "compress" /\ pcL = "done"
    /\ runsL < MaxRuns
    /\ runsL' = runsL + 1
    /\ filesL' = SelectSeq(filesL, LAMBDA n : n \in DOMAIN fsL)
    /\ Len(filesL') > 0
    /\ attemptsL' = [n \in Range(filesL') |-> 0]
    /\ unreadableL' = {}
    /\ iL' = 1
    /\ pcL' = "loop"
    /\ lastL' = NoCallL
    /\ UNCHANGED <<script, fsL, fs0L, varsT>>

NextL == MainSkipsExtension \/ MainSizeError \/ MainCompresses \/ MainAgain



\* ================================================ compress_tinypng.py actions
\* The output path compress_image writes to (the if/else on output_path and
\* convert_type; os.path.splitext(p)[0] + "." + ext replaces the extension).
OutputPath(input_path, output_path, convert_type) ==
    LET ext == MimeExt(convert_type) IN
    IF output_path # NoPath
    THEN IF convert_type # "none" /\ ext # "none"
         THEN [output_path EXCEPT !.ext = ext]
         ELSE output_path
    ELSE IF convert_type # "none"
         THEN IF ext # "none" THEN [input_path EXCEPT !.ext = ext] ELSE input_path
         ELSE input_path

\* What open(output_path, "wb") followed by f.write(compressed_bytes) leaves at
\* output_path when write raises / when both succeed.
WriteFailed(fs, input_path, output_path) ==
    Put(fs, output_path, [data |-> "partial", of |-> input_path])
Written(fs, input_path, output_path) ==
    Put(fs, output_path, [data |-> "tiny", of |-> input_path])

\* compress_image(input_path, output_path, resize_options, convert_type) called
\* with the files fs and the directories dirs: the set of its possible results,
\* one per path through the function.  success is the returned flag.
tinypng_compress_image(input_path, output_path, fs, dirs) ==
    LET dst == OutputPath(input_path, output_path, argsT.convert_type)
        Result(success, outcome, osz, csz, fs2, dirs2, wrote) ==
            [success |-> success, outcome |-> outcome, original_size |-> osz,
             compressed_size |-> csz, output_path |-> IF csz = 0 THEN NoPath ELSE dst,
             fs |-> fs2, dirs |-> dirs2, wrote |-> wrote]
        made == dirs \cup {DirOf(dst)}
    IN  \* os.path.getsize(input_path) raises OSError
        {Result(FALSE, "size_error", 0, 0, fs, dirs, FALSE)}
        \* tinify raises in from_file / resize / convert / to_buffer
        \cup {Result(FALSE, "api_error", o, 0, fs, dirs, FALSE) : o \in Sizes}
        \* ensure_dir has to create the directory and os.makedirs raises
        \cup {Result(FALSE, "mkdir_error", o, c, fs, dirs, FALSE) :
                 o \in {x \in Sizes : DirOf(dst) \notin dirs}, c \in Sizes}
        \* open(output_path, "wb") raises
        \cup {Result(FALSE, "open_error", o, c, fs, made, FALSE) : o \in Sizes, c \in Sizes}
        \* f.write raises after open truncated or created the file
        \cup {Result(FALSE, "write_error", o, c, WriteFailed(fs, input_path, dst), made, TRUE) :
                 o \in Sizes, c \in Sizes}
        \* the file is written: return True
        \cup {Result(TRUE, "written", o, c, Written(fs, input_path, dst), made, TRUE) :
                 o \in Sizes, c \in Sizes}

\* The effect of one call on the state, given its result r.
ApplyResult(name, r) ==
    /\ fsT' = r.fs
    /\ dirsT' = r.dirs
    /\ attemptsT' = [attemptsT EXCEPT ![name] = @ + 1]
    /\ writesT' = IF r.wrote
                  THEN writesT \cup {[src |-> InputPath(name), dst |-> r.output_path]}
                  ELSE writesT
    /\ lastT' = [file |-> InputPath(name), outcome |-> r.outcome, format |-> "none",
                 file_ts |-> 0, original_size |-> r.original_size,
                 compressed_size |-> r.compressed_size, output_path |-> r.output_path,
                 before |-> fsT[InputPath(name)]]

\* os.path.getmtime / os.path.getctime, chosen by time_field
file_time(time_field, mtime, ctime) == IF time_field = "ctime" THEN ctime ELSE mtime

\* ---- main()
\* No API key in --key or TINIFY_API_KEY: return.
TinyMainNoKey ==
    /\ script = "tinypng" /\ pcT = "main"
    /\ pcT' = "exit"
    /\ UNCHANGED <<script, varsL, argsT, filesT, fsT, dirsT, iT, total_files, skipped,
                   success_count, fail_count, attemptsT, writesT, lastT>>

\* --input is a file whose time is earlier than --after, or cannot be read.
TinyMainSingleSkips ==
    /\ script = "tinypng" /\ pcT = "main" /\ argsT.input = "file"
    /\ Truthy(argsT.since_ts)
    /\ \/ \E mtime \in Times, ctime \in Times :
             LET file_ts == file_time(argsT.time_field, mtime, ctime) IN
             /\ file_ts < argsT.since_ts.val
             /\ lastT' = [NoCallT EXCEPT !.file = InputPath(filesT[1]),
                             !.outcome = "time_skip", !.file_ts = file_ts]
       \/ \* getmtime / getctime raises
          lastT' = [NoCallT EXCEPT !.file = InputPath(filesT[1]), !.outcome = "time_error"]
    /\ pcT' = "exit"
    /\ UNCHANGED <<script, varsL, argsT, filesT, fsT, dirsT, iT, total_files, skipped,
                   success_count, fail_count, attemptsT, writesT>>

\* --input is a file: compress_image(input_path, args.output, ...), whatever
\* its extension.
TinyMainSingleCompresses ==
    /\ script = "tinypng" /\ pcT = "main" /\ argsT.input = "file"
    /\ Truthy(argsT.since_ts) =>
          \E mtime \in Times, ctime \in Times :
             ~(file_time(argsT.time_field, mtime, ctime) < argsT.since_ts.val)
    /\ \E r \in tinypng_compress_image(InputPath(filesT[1]),
                   IF argsT.output THEN SingleOutput ELSE NoPath, fsT, dirsT) :
          ApplyResult(filesT[1], r)
    /\ pcT' = "exit"
    /\ UNCHANGED <<script, varsL, argsT, filesT, iT, total_files, skipped,
                   success_count, fail_count>>

\* ---- compress_folder()
\* The files the for loops visit: with recursive false the walk stops after
\* the folder's own files.
Walk == IF argsT.recursive THEN filesT ELSE SelectSeq(filesT, LAMBDA n : ~InSub(n))

\* not os.path.isdir(folder_path): return.
FolderNotADirectory ==
    /\ script = "tinypng" /\ pcT = "main" /\ argsT.input = "missing"
    /\ pcT' = "exit"
    /\ UNCHANGED <<script, varsL, argsT, filesT, fsT, dirsT, iT, total_files, skipped,
                   success_count, fail_count, attemptsT, writesT, lastT>>

\* The counters are zeroed and the walk starts.
FolderStarts ==
    /\ script = "tinypng" /\ pcT = "main" /\ argsT.input = "dir"
    /\ pcT' = IF Len(Walk) = 0 THEN "report" ELSE "filter"
    /\ UNCHANGED <<script, varsL, argsT, filesT, fsT, dirsT, iT, total_files, skipped,
                   success_count, fail_count, attemptsT, writesT, lastT>>

\* continue / end of the loop body: on to the next file, or to the report.
NextFile ==
    /\ iT' = iT + 1
    /\ pcT' = IF iT = Len(Walk) THEN "report" ELSE "filter"
    /\ UNCHANGED <<script, varsL, argsT, filesT>>

\* if not file.lower().endswith(SUPPORTED_FORMATS): continue
FolderSkipsExtension ==
    /\ script = "tinypng" /\ pcT = "filter"
    /\ ~SupportedT(Walk[iT])
    /\ NextFile
    /\ lastT' = [NoCallT EXCEPT !.file = InputPath(Walk[iT]), !.outcome = "ext_skip"]
    /\ UNCHANGED <<fsT, dirsT, total_files, skipped, success_count, fail_count,
                   attemptsT, writesT>>

\* since_ts is set and the file's time cannot be read: skipped += 1; continue
FolderTimeUnreadable ==
    /\ script = "tinypng" /\ pcT = "filter"
    /\ SupportedT(Walk[iT])
    /\ Truthy(argsT.since_ts)
    /\ skipped' = skipped + 1
    /\ NextFile
    /\ lastT' = [NoCallT EXCEPT !.file = InputPath(Walk[iT]), !.outcome = "time_error"]
    /\ UNCHANGED <<fsT, dirsT, total_files, success_count, fail_count, attemptsT, writesT>>

\* since_ts is set and file_ts < since_ts: skipped += 1; continue
FolderSkipsOld ==
    /\ script = "tinypng" /\ pcT = "filter"
    /\ SupportedT(Walk[iT])
    /\ Truthy(argsT.since_ts)
    /\ \E mtime \in Times, ctime \in Times :
          LET file_ts == file_time(argsT.time_field, mtime, ctime) IN
          /\ file_ts < argsT.since_ts.val
          /\ lastT' = [NoCallT EXCEPT !.file = InputPath(Walk[iT]),
                          !.outcome = "time_skip", !.file_ts = file_ts]
    /\ skipped' = skipped + 1
    /\ NextFile
    /\ UNCHANGED <<fsT, dirsT, total_files, success_count, fail_count, attemptsT, writesT>>

\* The file gets past the time filter (which runs only `if since_ts:`):
\* total_files += 1.  The file's times and bytes are what they are whether or
\* not the code reads them; lastT keeps them until the call returns.
FolderPasses ==
    /\ script = "tinypng" /\ pcT = "filter"
    /\ SupportedT(Walk[iT])
    /\ \E mtime \in Times, ctime \in Times, format \in FormatsT :
          LET file_ts == file_time(argsT.time_field, mtime, ctime) IN
          /\ Truthy(argsT.since_ts) => ~(file_ts < argsT.since_ts.val)
          /\ lastT' = [NoCallT EXCEPT !.file = InputPath(Walk[iT]), !.outcome = "passed",
                          !.file_ts = file_ts, !.format = format]
    /\ total_files' = total_files + 1
    /\ pcT' = "call"
    /\ UNCHANGED <<script, varsL, argsT, filesT, fsT, dirsT, iT, skipped, success_count,
                   fail_count, attemptsT, writesT>>

\* os.makedirs(out_dir, exist_ok=True) in the loop body raises: nothing in
\* compress_folder catches it.
FolderMakedirsFails ==
    /\ script = "tinypng" /\ pcT = "call"
    /\ argsT.output
    /\ DirOf(FolderOutput(Walk[iT])) \notin dirsT
    /\ pcT' = "crashed"
    /\ UNCHANGED <<script, varsL, argsT, filesT, fsT, dirsT, iT, total_files, skipped,
                   success_count, fail_count, attemptsT, writesT, lastT>>

\* (a loop body that counts successes only)
CountSuccessOnly(success) ==
    /\ success_count' = IF success THEN success_count + 1 ELSE success_count
    /\ fail_count' = fail_count

\* if success: success_count += 1 else: fail_count += 1
CountResult(success) ==
    IF success
    THEN success_count' = success_count + 1 /\ fail_count' = fail_count
    ELSE fail_count' = fail_count + 1 /\ success_count' = success_count

\* The output path is computed, compress_image is called, its result counted.
FolderCompresses ==
    /\ script = "tinypng" /\ pcT = "call"
    /\ LET name == Walk[iT]
           output_path == IF argsT.output THEN FolderOutput(name) ELSE NoPath
           dirs == IF argsT.output THEN dirsT \cup {DirOf(FolderOutput(name))} ELSE dirsT
       IN  \E r \in tinypng_compress_image(InputPath(name), output_path, fsT, dirs) :
              /\ ApplyResult(name, r)
              /\ CountResult(r.success)
    /\ NextFile
    /\ UNCHANGED <<total_files, skipped>>

NextT ==
    \/ TinyMainNoKey \/ TinyMainSingleSkips \/ TinyMainSingleCompresses
    \/ FolderNotADirectory \/ FolderStarts
    \/ FolderSkipsExtension \/ FolderTimeUnreadable \/ FolderSkipsOld \/ FolderPasses
    \/ FolderMakedirsFails \/ FolderCompresses

Next == NextL \/ NextT
Spec == Init /\ [][Next]_vars

\* ===================================================================== claims
RECURSIVE SumOver(_, _)
SumOver(f, S) ==
    IF S = {} THEN 0
    ELSE LET x == CHOOSE y \in S : TRUE IN f[x] + SumOver(f, S \ {x})

Local == script = "compress"
Tiny == script = "tinypng"
LocalErrors == {"open_error", "error"}
TinyErrors == {"size_error", "api_error", "mkdir_error", "open_error", "write_error"}
InputPaths == {InputPath(n) : n \in Range(filesT)}

\* C1: compress.py's compress_image replaces the file only when the re-encoded
\* temp file is strictly smaller; otherwise the original stays as it was and
\* the temp file is deleted.  So over any sequence of calls (and runs) a file
\* is never larger than it was at the start, and it is strictly smaller
\* whenever it was rewritten at all.
C1_ReplacedOnlyWhenSmaller ==
    Local =>
      /\ \A n \in DOMAIN fs0L :
            ~n.tmp => /\ n \in DOMAIN fsL
                      /\ fsL[n].size <= fs0L[n].size
                      /\ (fsL[n].gen > 0 => fsL[n].size < fs0L[n].size)
      /\ lastL.outcome = "replaced" =>
            /\ lastL.new_size < lastL.original_size
            /\ fsL[lastL.file] = [size |-> lastL.new_size, gen |-> lastL.before.gen + 1]
      /\ lastL.outcome = "kept" =>
            /\ lastL.new_size >= lastL.original_size
            /\ fsL[lastL.file] = lastL.before
            /\ temp_filepath(lastL.file) \notin DOMAIN fsL
\* A file was rewritten in one run and, in a later call, kept because the
\* re-encoded file was larger.
C1_Witness ==
    /\ Local /\ lastL.outcome = "kept"
    /\ lastL.new_size > lastL.original_size
    /\ lastL.before.gen > 0

\* C2: whenever processing a file ends in an error, in either script, the
\* input file's content is what it was before the call (the claim as stated).
C2_ErrorLeavesOriginal ==
    /\ Local /\ lastL.outcome \in LocalErrors => fsL[lastL.file] = lastL.before
    /\ Tiny /\ lastT.outcome \in TinyErrors =>
          /\ lastT.file \in DOMAIN fsT
          /\ fsT[lastT.file] = lastT.before

\* C3: in compress_tinypng.py's overwrite mode a compressed output larger
\* than the original is never written over the original: after a call that
\* returned success with compressed_size > original_size and the input path as
\* its output path, the input file is what it was.
C3_LargerNeverWritten ==
    (/\ Tiny /\ ~argsT.output
     /\ lastT.outcome = "written"
     /\ lastT.output_path = lastT.file
     /\ lastT.compressed_size > lastT.original_size)
    => fsT[lastT.file] = lastT.before

\* C4: GIF files are always skipped: compress.py returns from compress_image on
\* a GIF image without touching the directory, and compress_folder never hands
\* a file whose bytes are a GIF to compress_image (the claim as stated).
C4_GifAlwaysSkipped ==
    /\ Local /\ lastL.format = "GIF" =>
          /\ lastL.outcome = "gif"
          /\ fsL[lastL.file] = lastL.before
          /\ (temp_filepath(lastL.file) \in DOMAIN fsL) = lastL.tmp_before
    /\ Tiny /\ argsT.input = "dir" /\ pcT = "call" => lastT.format # "GIF"

\* C5: on every entry path a file with an unsupported extension is never
\* passed to compress_image and never modified (the claim as stated).
C5_UnsupportedIgnored ==
    /\ Local => \A n \in DOMAIN attemptsL : attemptsL[n] > 0 => SupportedL(n)
    /\ Tiny => \A n \in DOMAIN attemptsT :
                  ~SupportedT(n) => /\ attemptsT[n] = 0
                                    /\ fsT[InputPath(n)] = Orig(InputPath(n))

\* C6: no failure stops a batch loop, and when the loop is over every file
\* that got past the filters had exactly one compression attempt.  (A file
\* whose size compress.py's main cannot read is not counted against it.)
C6_EveryCandidateAttemptedOnce ==
    /\ Local /\ pcL = "done" =>
          \A n \in Range(filesL) :
             SupportedL(n) /\ n \notin unreadableL => attemptsL[n] = 1
    /\ Tiny /\ argsT.input = "dir" =>
          /\ pcT # "crashed"
          /\ \A n \in Range(filesT) : attemptsT[n] <= 1
          /\ pcT = "report" =>
                SumOver(attemptsT, Range(filesT)) + skipped =
                   Cardinality({j \in DOMAIN Walk : SupportedT(Walk[j])})

\* C7: with since_ts given, compress_folder passes a supported file on to
\* compress_image exactly when its selected time is >= since_ts, for every
\* since_ts including 0 (the claim as stated).
C7_PassedIffNotEarlier ==
    (Tiny /\ argsT.input = "dir" /\ argsT.since_ts.set) =>
      /\ lastT.outcome = "passed" => lastT.file_ts >= argsT.since_ts.val
      /\ lastT.outcome = "time_skip" => lastT.file_ts < argsT.since_ts.val

\* C8: between iterations of compress_folder's loop and at the final report,
\* total_files = success_count + fail_count and total_files + skipped is the
\* number of supported files visited; every such file was counted once, as a
\* call (success or failure) or as skipped.
VisitedSupported == {j \in 1..(iT - 1) : SupportedT(Walk[j])}
C8_CountersAddUp ==
    (Tiny /\ argsT.input = "dir" /\ pcT \in {"filter", "report"}) =>
      /\ total_files = success_count + fail_count
      /\ total_files + skipped = Cardinality(VisitedSupported)
      /\ \A n \in Range(filesT) : attemptsT[n] <= 1
      /\ SumOver(attemptsT, Range(filesT)) = success_count + fail_count
\* A finished run that counted a success, a failure and a skipped file.
C8_Witness ==
    /\ Tiny /\ pcT = "report"
    /\ success_count + fail_count >= 1 /\ fail_count + skipped >= 1
    /\ skipped + success_count >= 1 /\ total_files + skipped = MaxFiles

\* C9: in one run of compress_folder two input files are never written to the
\* same output path, and in place no output lands on another input file
\* (the claim as stated).
C9_NoOutputCollision ==
    (Tiny /\ argsT.input = "dir") =>
      /\ \A w1, w2 \in writesT : w1.dst = w2.dst => w1.src = w2.src
      /\ ~argsT.output =>
            \A w \in writesT : w.dst # w.src => w.dst \notin InputPaths

\* C10: if filepath + ".tmp" did not exist before compress_image(filepath), it
\* does not exist after the call returns, on every path; so when no candidate
\* had such a file, main ends with the names the directory started with.
NoStaleTemp == \A n \in DOMAIN fs0L : SupportedL(n) => temp_filepath(n) \notin DOMAIN fs0L
C10_NoTempLeft ==
    Local =>
      /\ (lastL.outcome # "none" /\ ~lastL.tmp_before) =>
            temp_filepath(lastL.file) \notin DOMAIN fsL
      /\ (pcL = "done" /\ NoStaleTemp) => DOMAIN fsL = DOMAIN fs0L
\* main is over after a call that failed in save or in the size comparison.
C10_Witness ==
    /\ Local /\ pcL = "done" /\ NoStaleTemp
    /\ lastL.outcome = "error" /\ ~lastL.tmp_before
    /\ Cardinality(DOMAIN fsL) = MaxFiles
====
